---- MODULE Spec2Model ----
(***************************************************************************)
(* Model of the avatar-creator model runtime (BaseModelModule and its      *)
(* variants) and of the artifact store client (S3Module).                  *)
(*                                                                         *)
(* Runtime: one BaseModelModule instance, the background provisioning task *)
(* its constructor starts, load_model, and a set of infer calls            *)
(* (__call__) with the worker threads that run _run_inference.  The        *)
(* asyncio event loop runs one coroutine step at a time, so each action    *)
(* below is the code between two suspension points; worker threads run     *)
(* concurrently with the loop and are separate actions.  One load_model    *)
(* call runs at a time; load_model may be called again on a loaded         *)
(* instance, and the task awaiting a call may be cancelled.                *)
(*                                                                         *)
(* Store: one S3Module over a bucket whose content, provider order and     *)
(* page size are arbitrary; each behaviour calls one method.               *)
(*                                                                         *)
(* Spec is the runtime, FairSpec the runtime loaded once with awaited      *)
(* calls under a fair loop and terminating computations, FaultSpec the     *)
(* same runtime with a forward that may raise RuntimeError.  S3Spec is the *)
(* store's version lookup, StoreSpec its listing and single download,      *)
(* BatchSpec its upload and batch methods, and ProvSpec the background     *)
(* provisioning task (_init_model_files, download_model) followed by a     *)
(* load.  ResolveSpec is download_latest and download_version over the     *)
(* listings of StoreSpec, and HttpSpec the exception handlers app.py       *)
(* registers, answering the exceptions of one request.                     *)
(***************************************************************************)
EXTENDS Integers, Sequences, FiniteSets, TLC

\* ---------------------------------------------------------------- bounds
\* limits 1..MaxLimit, NumCalls infer calls, at most MaxLoads successful
\* loads and MaxCancels cancellations; buckets of at most MaxObjs objects
\* with timestamps 1..MaxTime, listed in pages of 1..MaxPageSize objects;
\* listings of at most MaxKeys keys, batches of at most MaxBatch files
MaxLimit == 2
NumCalls == 3
MaxLoads == 2
MaxCancels == 1
MaxObjs == 3
MaxTime == 2
MaxPageSize == 3
MaxKeys == 5
MaxBatch == 2

Calls == 1..NumCalls
Gates == 1..MaxLoads

\* self.model_info = None
NoInfo == 0
\* self.local_model_checkpoint_path = None (and any falsy path)
NoPath == <<>>
\* the paths a finished provisioning task can store: download_model only
\* returns a path that ends in one of the model extensions
ProvisionedPaths == { <<"d","/","v","1","/","m","o","d","e","l",".","p","t">> }
\* the exceptions the variant's forward can raise
ForwardFaults == {"ForwardError"}

VARIABLES
    concurrent_per_model,          \* the concurrency limit of the descriptor
    provPc,                        \* the background _init_model_files task
    local_model_checkpoint_path,
    model_info,                    \* NoInfo or the id of the current state dict
    sem,                           \* per state dict: the asyncio.Semaphore
    concurrent_count,              \* per state dict: 'concurrent_count'
    loadPc,                        \* position of the load_model coroutine
    lastLoad,                      \* outcome of the last load_model call
    pc,                            \* per call: position of the __call__ coroutine
    semOf,                         \* per call: the semaphore it is inside (line 90)
    infoOf,                        \* per call: the model_info handed to the thread
    thread,                        \* per call: position of the worker thread
    fault,                         \* per call: the exception forward raised
    err                            \* per call: the exception the caller got

VARIABLES
    model_name,                    \* the model name of the descriptor
    version,                       \* its version selector: "latest" or a tag
    s3_base_object_path,           \* S3DownloadParams.s3_base_object_path
    local_dir,                     \* S3DownloadParams.local_dir
    objects,                       \* the bucket: [Key, LastModified] in provider order
    pageSize,                      \* how many objects the provider puts in a page
    s3pc,                          \* "idle", or the S3Module method that has run
    s3arg,                         \* the argument that method was called with
    result,                        \* what the method returned or raised
    attempts,                      \* the keys handed to download_file and
                                   \* upload_file, in order
    disk                           \* the local files

\* the S3DownloadParams of the module and the provider's bucket
params == <<model_name, version, s3_base_object_path, local_dir>>
bucket == <<objects, pageSize>>

svars == <<params, bucket, s3pc, s3arg, result, attempts, disk>>

rvars == <<concurrent_per_model, provPc, local_model_checkpoint_path,
           model_info, sem, concurrent_count, loadPc, lastLoad,
           pc, semOf, infoOf, thread, fault, err>>

vars == <<rvars, svars>>

\* ------------------------------------------------------------ semaphore
\* The gate is an asyncio.Semaphore.  Its operations act on the pair
\* [s |-> the semaphore, p |-> the positions of the calls]: handing a permit
\* to a waiter resolves that waiter's future (its position becomes "granted").

\* asyncio.Semaphore(value)
NewSem(n) == [value |-> n, waiters |-> <<>>]

\* Semaphore.locked(): no permit free, or somebody is already queued
Locked(s) == s.value = 0 \/ s.waiters # <<>>

RemoveWaiter(ws, c) == SelectSeq(ws, LAMBDA w : w # c)

\* the first queued waiter whose future is not done yet, 0 when there is none
FirstWaiting(ws, p) ==
    LET idx == {i \in 1..Len(ws) : p[ws[i]] = "waiting"}
    IN  IF idx = {} THEN 0
        ELSE ws[CHOOSE i \in idx : \A j \in idx : i <= j]

\* Semaphore._wake_up_next(): hand a permit to the first pending waiter
WakeOne(sp) ==
    LET w == FirstWaiting(sp.s.waiters, sp.p)
    IN  IF w = 0 THEN sp
        ELSE [s |-> [sp.s EXCEPT !.value = @ - 1],
              p |-> [sp.p EXCEPT ![w] = "granted"]]

\* the loop that ends Semaphore.acquire(): wake as many as are allowed
RECURSIVE WakeAll(_)
WakeAll(sp) ==
    IF sp.s.value > 0 /\ FirstWaiting(sp.s.waiters, sp.p) # 0
    THEN WakeAll(WakeOne(sp))
    ELSE sp

\* Semaphore.release(): value += 1, then _wake_up_next()
Release(sp) == WakeOne([sp EXCEPT !.s.value = @ + 1])

\* a waiter leaves the queue (the finally of Semaphore.acquire())
Leave(sp, c) == [sp EXCEPT !.s.waiters = RemoveWaiter(@, c)]

\* -------------------------------------------------------------- runtime
\* the finally block of _run_inference: max(0, count - 1)
\* (DecrementUnclamped: the same without the floor)
DecrementUnclamped(n) == n - 1
Decrement(n) == IF n - 1 > 0 THEN n - 1 ELSE 0

\* 'concurrent_count': 0 in the state dict load_model builds
\* (InitialCountStale: a dict that starts with a count left over)
InitialCountStale == 0 + 1
InitialCount == 0

\* the argument of asyncio.Semaphore in load_model
\* (GatePermitsOffByOne: one permit too many)
GatePermitsOffByOne(n) == n + 1
GatePermits(n) == n

\* the guard at the top of __call__: if not self.model_info
\* (NotLoadedUnchecked: the guard left out)
NotLoadedUnchecked(info) == FALSE
NotLoaded(info) == info = NoInfo

\* __aexit__ of "async with self.model_info['sem']": the permit is released
\* however the block is left (f: "none", or the exception leaving it)
\* (ExitGateLeaky: a release that is skipped when an exception leaves)
ExitGateLeaky(sp, f) == IF f = "none" THEN Release(sp) ELSE sp
ExitGate(sp, f) == Release(sp)

\* how __call__ ends once the worker thread is done: the result is returned,
\* or the except branch logs the exception and re-raises it
Outcome(f) == IF f = "none" THEN "returned" ELSE "raised"
\* (ReraisedWrapped: an except branch that raises a wrapper instead)
ReraisedWrapped(f) == IF f = "none" THEN "none" ELSE "InferenceFault"
Reraised(f) == f

\* the guard at the top of the variants' _load_model_on_device
\* (CheckpointUnchecked: a variant without the guard)
CheckpointUnchecked(path) == FALSE
CheckpointMissing(path) == path = NoPath

RuntimeInit ==
    /\ provPc = "pending"
    /\ local_model_checkpoint_path = NoPath
    /\ model_info = NoInfo
    /\ sem = [g \in Gates |-> NewSem(0)]
    /\ concurrent_count = [g \in Gates |-> 0]
    /\ loadPc = "idle"
    /\ lastLoad = "none"
    /\ pc = [c \in Calls |-> "idle"]
    /\ semOf = [c \in Calls |-> NoInfo]
    /\ infoOf = [c \in Calls |-> NoInfo]
    /\ thread = [c \in Calls |-> "none"]
    /\ fault = [c \in Calls |-> "none"]
    /\ err = [c \in Calls |-> "none"]

\* ------------------------------------------------ background provisioning
\* _init_model_files, started by the constructor with asyncio.create_task:
\* download_model returned a validated path
ProvisionDone ==
    /\ provPc = "pending"
    /\ \E path \in ProvisionedPaths : local_model_checkpoint_path' = path
    /\ provPc' = "done"
    /\ UNCHANGED <<svars, concurrent_per_model, model_info, sem,
                   concurrent_count, loadPc, lastLoad, pc, semOf,
                   infoOf, thread, fault, err>>

\* _init_model_files: download_model raised; the task logs and re-raises
ProvisionFail ==
    /\ provPc = "pending"
    /\ provPc' = "failed"
    /\ UNCHANGED <<svars, concurrent_per_model, local_model_checkpoint_path,
                   model_info, sem, concurrent_count, loadPc, lastLoad, pc, semOf, infoOf, thread, fault, err>>

\* ------------------------------------------------------------ load_model
\* load_model up to the await inside _load_model_on_device: the variant
\* raises ValueError when there is no checkpoint path, else it hands the
\* device load to the executor
LoadStart ==
    /\ loadPc = "idle"
    /\ model_info < MaxLoads
    /\ IF CheckpointMissing(local_model_checkpoint_path)
       THEN /\ lastLoad' = "ValueError"
            /\ UNCHANGED loadPc
       ELSE /\ loadPc' = "loading"
            /\ UNCHANGED lastLoad
    /\ UNCHANGED <<svars, concurrent_per_model, provPc,
                   local_model_checkpoint_path, model_info, sem,
                   concurrent_count, pc, semOf, infoOf, thread, fault, err>>

\* the device load returned a model: load_model installs a fresh state dict
LoadSucceed ==
    /\ loadPc = "loading"
    /\ model_info < MaxLoads
    /\ model_info' = model_info + 1
    /\ sem' = [sem EXCEPT ![model_info + 1] =
                   NewSem(GatePermits(concurrent_per_model))]
    /\ concurrent_count' = [concurrent_count EXCEPT ![model_info + 1] =
                                InitialCount]
    /\ loadPc' = "idle"
    /\ lastLoad' = "ok"
    /\ UNCHANGED <<svars, concurrent_per_model, provPc,
                   local_model_checkpoint_path, pc, semOf, infoOf,
                   thread, fault, err>>

\* the device load returned a falsy model: RuntimeError("Model could not be
\* loaded"); self.model_info is not touched
\* (LoadFalsyClears: a failure that would drop the state dict)
LoadFalsyClears ==
    /\ loadPc = "loading"
    /\ loadPc' = "idle"
    /\ lastLoad' = "RuntimeError"
    /\ model_info' = NoInfo
    /\ UNCHANGED <<svars, concurrent_per_model, provPc,
                   local_model_checkpoint_path, sem, concurrent_count, pc,
                   semOf, infoOf, thread, fault, err>>
LoadFalsy ==
    /\ loadPc = "loading"
    /\ loadPc' = "idle"
    /\ lastLoad' = "RuntimeError"
    /\ UNCHANGED <<svars, concurrent_per_model, provPc,
                   local_model_checkpoint_path, model_info, sem,
                   concurrent_count, pc, semOf, infoOf, thread, fault, err>>

\* the device load raised: the exception leaves load_model
LoadRaise ==
    /\ loadPc = "loading"
    /\ loadPc' = "idle"
    /\ lastLoad' = "DeviceError"
    /\ UNCHANGED <<svars, concurrent_per_model, provPc,
                   local_model_checkpoint_path, model_info, sem,
                   concurrent_count, pc, semOf, infoOf, thread, fault, err>>

\* ----------------------------------------------------- __call__ (infer)
\* await asyncio.to_thread(...): forward runs on a worker thread and the
\* coroutine is suspended meanwhile, so the loop is free for other steps
\* (ToThreadInline: forward called in the coroutine, on the loop's thread)
ToThreadInline == FALSE
ToThread == TRUE

\* the loop can run a coroutine step
LoopFree == ToThread \/ \A c \in Calls : thread[c] # "forward"

\* asyncio.to_thread(self._run_inference, self.model_info, ...): the state
\* dict is read when the computation is dispatched
Dispatch(c) ==
    /\ thread' = [thread EXCEPT ![c] = "forward"]
    /\ infoOf' = [infoOf EXCEPT ![c] = model_info]

\* __call__ from its start to its first suspension point
Call(c) ==
    /\ LoopFree
    /\ pc[c] = "idle"
    /\ IF NotLoaded(model_info)
       THEN \* raise RuntimeError("No model loaded. Call load_model first.")
            /\ pc' = [pc EXCEPT ![c] = "raised"]
            /\ err' = [err EXCEPT ![c] = "NotLoaded"]
            /\ UNCHANGED <<sem, semOf, infoOf, thread>>
       ELSE IF model_info = NoInfo
       THEN \* None['sem'] raises TypeError inside the try: logged, re-raised
            /\ pc' = [pc EXCEPT ![c] = "raised"]
            /\ err' = [err EXCEPT ![c] = "TypeError"]
            /\ UNCHANGED <<sem, semOf, infoOf, thread>>
       ELSE /\ semOf' = [semOf EXCEPT ![c] = model_info]
            /\ UNCHANGED err
            /\ IF Locked(sem[model_info])
               THEN \* Semaphore.acquire() queues a future and suspends
                    /\ sem' = [sem EXCEPT ![model_info].waiters = Append(@, c)]
                    /\ pc' = [pc EXCEPT ![c] = "waiting"]
                    /\ UNCHANGED <<infoOf, thread>>
               ELSE \* a permit is free: take it and dispatch the computation
                    /\ sem' = [sem EXCEPT ![model_info].value = @ - 1]
                    /\ pc' = [pc EXCEPT ![c] = "awaiting"]
                    /\ Dispatch(c)
    /\ UNCHANGED <<svars, concurrent_per_model, provPc,
                   local_model_checkpoint_path, model_info, concurrent_count,
                   loadPc, lastLoad, fault>>

\* a waiter whose future was resolved resumes inside Semaphore.acquire(),
\* enters the async with body and dispatches the computation
WaiterResume(c) ==
    /\ LoopFree
    /\ pc[c] = "granted"
    /\ LET sp == WakeAll(Leave([s |-> sem[semOf[c]],
                                p |-> [pc EXCEPT ![c] = "awaiting"]], c))
       IN  /\ sem' = [sem EXCEPT ![semOf[c]] = sp.s]
           /\ pc' = sp.p
    /\ Dispatch(c)
    /\ UNCHANGED <<svars, concurrent_per_model, provPc,
                   local_model_checkpoint_path, model_info, concurrent_count,
                   loadPc, lastLoad, semOf, fault, err>>

\* _run_inference on the worker thread.  The thread touches shared state
\* only in its finally block (one decrement under model_info['lock']), and
\* the loop sees the thread's future complete only after that block, so the
\* end of forward and the finally block are one step.
RunInferenceEnd(c, f) ==
    /\ thread[c] = "forward"
    /\ fault' = [fault EXCEPT ![c] = f]
    /\ concurrent_count' = [concurrent_count EXCEPT ![infoOf[c]] = Decrement(@)]
    /\ thread' = [thread EXCEPT ![c] = "done"]
    /\ infoOf' = [infoOf EXCEPT ![c] = NoInfo]
    /\ UNCHANGED <<svars, concurrent_per_model, provPc,
                   local_model_checkpoint_path, model_info, sem, loadPc,
                   lastLoad, pc, semOf, err>>

\* forward returns a result
ForwardReturn(c) == RunInferenceEnd(c, "none")

\* forward raises
ForwardRaise(c) == \E f \in ForwardFaults : RunInferenceEnd(c, f)

\* the await of to_thread completes: the async with block exits (release),
\* then the result is returned, or the exception is logged and re-raised
CallResume(c) ==
    /\ LoopFree
    /\ pc[c] = "awaiting"
    /\ thread[c] = "done"
    /\ LET sp == ExitGate([s |-> sem[semOf[c]],
                           p |-> [pc EXCEPT ![c] = Outcome(fault[c])]],
                          fault[c])
       IN  /\ sem' = [sem EXCEPT ![semOf[c]] = sp.s]
           /\ pc' = sp.p
    /\ err' = [err EXCEPT ![c] = Reraised(fault[c])]
    /\ semOf' = [semOf EXCEPT ![c] = NoInfo]
    /\ UNCHANGED <<svars, concurrent_per_model, provPc,
                   local_model_checkpoint_path, model_info, concurrent_count,
                   loadPc, lastLoad, infoOf, thread, fault>>

\* the task awaiting __call__ is cancelled at its suspension point
Cancel(c) ==
    /\ LoopFree
    /\ pc[c] \in {"waiting", "granted", "awaiting"}
    /\ Cardinality({d \in Calls : pc[d] = "cancelled"}) < MaxCancels
    /\ LET me == [s |-> sem[semOf[c]], p |-> [pc EXCEPT ![c] = "cancelled"]]
           sp == CASE pc[c] = "waiting"  -> WakeAll(Leave(me, c))
                   [] pc[c] = "granted"  ->
                        WakeAll(Leave([me EXCEPT !.s.value = @ + 1], c))
                   [] pc[c] = "awaiting" -> ExitGate(me, "CancelledError")
       IN  /\ sem' = [sem EXCEPT ![semOf[c]] = sp.s]
           /\ pc' = sp.p
    /\ semOf' = [semOf EXCEPT ![c] = NoInfo]
    /\ UNCHANGED <<svars, concurrent_per_model, provPc,
                   local_model_checkpoint_path, model_info, concurrent_count,
                   loadPc, lastLoad, infoOf, thread, fault, err>>

Next ==
    \/ ProvisionDone
    \/ ProvisionFail
    \/ LoadStart
    \/ LoadSucceed
    \/ LoadFalsy
    \/ LoadRaise
    \/ \E c \in Calls : Call(c)
    \/ \E c \in Calls : WaiterResume(c)
    \/ \E c \in Calls : ForwardReturn(c)
    \/ \E c \in Calls : ForwardRaise(c)
    \/ \E c \in Calls : CallResume(c)
    \/ \E c \in Calls : Cancel(c)


\* ======================================================== artifact store
\* Strings are sequences of one-character strings, so that prefix tests,
\* replacement and ordering are computed as Python computes them.

\* the code point of a character (Python orders str by code point)
Ord(ch) ==
    CASE ch = "." -> 46 [] ch = "/" -> 47 [] ch = "0" -> 48 [] ch = "1" -> 49
      [] ch = "2" -> 50 [] ch = "L" -> 76 [] ch = "a" -> 97 [] ch = "b" -> 98
      [] ch = "d" -> 100 [] ch = "e" -> 101 [] ch = "h" -> 104
      [] ch = "i" -> 105 [] ch = "l" -> 108
      [] ch = "m" -> 109 [] ch = "n" -> 110 [] ch = "o" -> 111
      [] ch = "p" -> 112 [] ch = "s" -> 115 [] ch = "t" -> 116
      [] ch = "u" -> 117 [] ch = "v" -> 118 [] ch = "x" -> 120

\* a < b for Python str
RECURSIVE StrLess(_, _)
StrLess(a, b) ==
    IF a = <<>> THEN b # <<>>
    ELSE IF b = <<>> THEN FALSE
    ELSE IF Head(a) = Head(b) THEN StrLess(Tail(a), Tail(b))
    ELSE Ord(Head(a)) < Ord(Head(b))

\* str.startswith
StartsWith(s, pre) == Len(pre) <= Len(s) /\ SubSeq(s, 1, Len(pre)) = pre

\* str.replace(old, new): every non-overlapping occurrence, left to right
RECURSIVE Replace(_, _, _)
Replace(s, old, new) ==
    IF Len(s) < Len(old) THEN s
    ELSE IF SubSeq(s, 1, Len(old)) = old
         THEN new \o Replace(SubSeq(s, Len(old) + 1, Len(s)), old, new)
         ELSE <<Head(s)>> \o Replace(Tail(s), old, new)

\* str.rstrip('/')
RECURSIVE RStripSlash(_)
RStripSlash(s) ==
    IF s # <<>> /\ s[Len(s)] = "/" THEN RStripSlash(SubSeq(s, 1, Len(s) - 1))
    ELSE s

\* sorted(list of str)
RECURSIVE Insert(_, _)
Insert(x, s) ==
    IF s = <<>> THEN <<x>>
    ELSE IF StrLess(x, Head(s)) THEN <<x>> \o s
    ELSE <<Head(s)>> \o Insert(x, Tail(s))

RECURSIVE Sorted(_)
Sorted(s) == IF s = <<>> THEN <<>> ELSE Insert(Head(s), Sorted(Tail(s)))

RECURSIVE Concat(_)
Concat(ss) == IF ss = <<>> THEN <<>> ELSE Head(ss) \o Concat(Tail(ss))

\* ------------------------------------------------------------ the bucket
\* names of the objects the bucket can hold, relative to the base path
ModelNames ==
    { <<"v","1","/","m","o","d","e","l",".","p","t">>,
      <<"v","2","/","m","o","d","e","l",".","b","i","n">>,
      <<"v","1","0","/","m","o","d","e","l",".","p","t">>,
      <<"v","2","/","a",".","p","t">> }

\* the base object path the module is constructed with
BasePaths == { <<"m">>, <<"m", "/">> }

\* the keys of the bucket: every object lies under the base path
BucketKeys == { <<"m", "/">> \o n : n \in ModelNames }

\* version tags and listing prefixes the methods are called with
Tags == { <<"1">>, <<"2">>, <<"1", "0">> }
Prefixes == { <<>>, <<"v", "1">>, <<"v", "2">> }

\* settings.MODELS_S3_BUCKET_NAME and S3DownloadParams.local_dir
Bucket == "bucket"
LocalDir == <<"d">>

\* the version selector 'latest'
Latest == <<"l","a","t","e","s","t">>

\* every bucket content of at most MaxObjs objects, in any provider order
Listings ==
    UNION { { s \in [1..n -> [Key : BucketKeys, LastModified : 1..MaxTime]] :
                \A i, j \in 1..n : i # j => s[i].Key # s[j].Key }
            : n \in 0..MaxObjs }

\* paginator.paginate(Bucket, Prefix): the objects under the prefix, in
\* provider order, cut into pages; a listing without objects is one page
\* that has no 'Contents'
RECURSIVE Chunk(_, _)
Chunk(s, k) ==
    IF Len(s) <= k THEN <<s>>
    ELSE <<SubSeq(s, 1, k)>> \o Chunk(SubSeq(s, k + 1, Len(s)), k)

Under(prefix) == SelectSeq(objects, LAMBDA o : StartsWith(o.Key, prefix))
Paginate(prefix) == Chunk(Under(prefix), pageSize)

\* ------------------------------------------------------------- S3Module
\* S3Module.__init__: self.base_dir
base_dir == RStripSlash(s3_base_object_path)

\* what a method hands back: a value, None, or an exception with its fields
Ok(v) == [exc |-> "none", absent |-> FALSE, val |-> v, ctx |-> <<>>]
Absent == [exc |-> "none", absent |-> TRUE, val |-> <<>>, ctx |-> <<>>]
Raise(e, c) == [exc |-> e, absent |-> FALSE, val |-> <<>>, ctx |-> c]

\* full_prefix = f"{self.base_dir}/{prefix if prefix else ''}"
FullPrefix(prefix) == base_dir \o <<"/">> \o prefix

\* f.replace(f"{self.base_dir}/", "")
StripBase(key) == Replace(key, base_dir \o <<"/">>, <<>>)

\* get_latest_version: obj['LastModified'] > latest_time
\* (NewerOrSame: the comparison with >=)
NewerOrSame(t, latest) == t >= latest
Newer(t, latest) == t > latest

\* get_latest_version: the body of the loop over page['Contents']
ScanObj(acc, obj) ==
    IF ~acc.has \/ Newer(obj.LastModified, acc.time)
    THEN [has |-> TRUE, time |-> obj.LastModified, file |-> obj.Key]
    ELSE acc

RECURSIVE ScanPage(_, _)
ScanPage(acc, page) ==
    IF page = <<>> THEN acc ELSE ScanPage(ScanObj(acc, Head(page)), Tail(page))

RECURSIVE ScanPages(_, _)
ScanPages(acc, pages) ==
    IF pages = <<>> THEN acc
    ELSE ScanPages(ScanPage(acc, Head(pages)), Tail(pages))

\* get_latest_version(prefix); listFails: the listing raises
GetLatestVersion(prefix, listFails) ==
    IF listFails THEN Raise("S3ListError", <<Bucket, base_dir>>)
    ELSE LET acc == ScanPages([has |-> FALSE, time |-> 0, file |-> <<>>],
                              Paginate(FullPrefix(prefix)))
         IN  IF acc.file # <<>> THEN Ok(StripBase(acc.file)) ELSE Absent

\* list_files(prefix): the keys of all pages, base path removed
ListFiles(prefix, listFails) ==
    IF listFails THEN Raise("S3ListError", <<Bucket, base_dir>>)
    ELSE LET files == Concat(Paginate(FullPrefix(prefix)))
         IN  Ok([i \in 1..Len(files) |-> StripBase(files[i].Key)])

\* download_to_local(filename) from the state io = [attempts, disk];
\* download_file fails when the key is not in the bucket or the
\* transport fails
\* (DownloadToLocalPartial: a failed transfer that leaves its file behind)
DownloadToLocalPartial(filename, transportFails, io) ==
    LET s3_path == base_dir \o <<"/">> \o filename
        local_path == local_dir \o <<"/">> \o filename
        found == \E i \in 1..Len(objects) : objects[i].Key = s3_path
    IN  [res |-> IF found /\ ~transportFails THEN Ok(local_path)
                 ELSE Raise("S3DownloadError", <<s3_path>>),
         attempts |-> Append(io.attempts, s3_path),
         disk |-> io.disk \cup {local_path}]
DownloadToLocal(filename, transportFails, io) ==
    LET s3_path == base_dir \o <<"/">> \o filename
        local_path == local_dir \o <<"/">> \o filename
        found == \E i \in 1..Len(objects) : objects[i].Key = s3_path
    IN  IF found /\ ~transportFails
        THEN [res |-> Ok(local_path),
              attempts |-> Append(io.attempts, s3_path),
              disk |-> io.disk \cup {local_path}]
        ELSE [res |-> Raise("S3DownloadError", <<s3_path>>),
              attempts |-> Append(io.attempts, s3_path),
              disk |-> io.disk]

\* download_version: version_prefix = f"v{version}"
VersionPrefix(tag) == <<"v">> \o tag

\* download_version: sorted(model_files)[-1]
\* (PickFirst: index 0 instead)
PickFirst(model_files) == Sorted(model_files)[1]
PickLatest(model_files) == Sorted(model_files)[Len(model_files)]

\* download_version(model_name, version).  Its except clause names
\* version_prefix, which is not bound yet when list_files raises: that
\* handler raises UnboundLocalError instead of S3DownloadError.
DownloadVersion(tag, listFails, transportFails, io) ==
    LET listed == ListFiles(<<>>, listFails)
        model_files == SelectSeq(listed.val,
                           LAMBDA f : StartsWith(f, VersionPrefix(tag)))
        d == DownloadToLocal(PickLatest(model_files), transportFails, io)
    IN  IF listed.exc # "none"
        THEN [res |-> Raise("UnboundLocalError", <<>>),
              attempts |-> io.attempts, disk |-> io.disk]
        ELSE IF model_files = <<>>
        THEN [res |-> Absent, attempts |-> io.attempts, disk |-> io.disk]
        ELSE IF d.res.exc # "none"
        THEN [d EXCEPT !.res =
                 Raise("S3DownloadError",
                       <<base_dir \o <<"/">> \o VersionPrefix(tag)>>)]
        ELSE d

\* Path(local_path).name: what follows the last '/'
RECURSIVE BaseName(_)
BaseName(path) ==
    IF \E i \in 1..Len(path) : path[i] = "/"
    THEN BaseName(Tail(path))
    ELSE path

\* upload_file stores the object: a key the bucket has already is
\* overwritten in place, a new key is added
PutObject(objs, key) ==
    IF \E i \in 1..Len(objs) : objs[i].Key = key
    THEN [i \in 1..Len(objs) |->
             IF objs[i].Key = key THEN [objs[i] EXCEPT !.LastModified = MaxTime]
             ELSE objs[i]]
    ELSE Append(objs, [Key |-> key, LastModified |-> MaxTime])

\* upload_to_s3(local_path, s3_filename) from the state
\* io = [attempts, objects]; no s3_filename (None or "") is <<>>
\* (UploadToS3Unchecked: the transfer is tried before the file is looked at)
UploadToS3Unchecked(local_path, s3_filename, transportFails, io) ==
    LET name == IF s3_filename # <<>> THEN s3_filename ELSE BaseName(local_path)
        s3_path == base_dir \o <<"/">> \o name
    IN  IF transportFails \/ local_path \notin disk
        THEN [res |-> Raise("S3DownloadError", <<s3_path>>),
              attempts |-> Append(io.attempts, s3_path),
              objects |-> io.objects]
        ELSE [res |-> Ok(s3_path),
              attempts |-> Append(io.attempts, s3_path),
              objects |-> PutObject(io.objects, s3_path)]
UploadToS3(local_path, s3_filename, transportFails, io) ==
    LET name == IF s3_filename # <<>> THEN s3_filename ELSE BaseName(local_path)
        s3_path == base_dir \o <<"/">> \o name
    IN  IF local_path \notin disk
        THEN [res |-> Raise("FileNotFoundError", <<local_path>>),
              attempts |-> io.attempts,
              objects |-> io.objects]
        ELSE IF transportFails
        THEN [res |-> Raise("S3DownloadError", <<s3_path>>),
              attempts |-> Append(io.attempts, s3_path),
              objects |-> io.objects]
        ELSE [res |-> Ok(s3_path),
              attempts |-> Append(io.attempts, s3_path),
              objects |-> PutObject(io.objects, s3_path)]

\* batch_download: the loop from filenames[i] on, local_paths collected so
\* far; failAt: the position whose transfer the transport fails (0: none).
\* The exception of download_to_local leaves the loop and the method.
\* (BatchDownloadKeepGoing: a loop that skips a failed download)
RECURSIVE BatchDownloadKeepGoing(_, _, _, _, _)
BatchDownloadKeepGoing(filenames, i, failAt, local_paths, io) ==
    IF i > Len(filenames)
    THEN [res |-> Ok(local_paths), attempts |-> io.attempts, disk |-> io.disk]
    ELSE LET d == DownloadToLocal(filenames[i], failAt = i, io)
         IN  BatchDownloadKeepGoing(filenames, i + 1, failAt,
                 IF d.res.exc # "none" THEN local_paths
                 ELSE Append(local_paths, d.res.val),
                 [attempts |-> d.attempts, disk |-> d.disk])
RECURSIVE BatchDownloadFrom(_, _, _, _, _)
BatchDownloadFrom(filenames, i, failAt, local_paths, io) ==
    IF i > Len(filenames)
    THEN [res |-> Ok(local_paths), attempts |-> io.attempts, disk |-> io.disk]
    ELSE LET d == DownloadToLocal(filenames[i], failAt = i, io)
         IN  IF d.res.exc # "none" THEN d
             ELSE BatchDownloadFrom(filenames, i + 1, failAt,
                                    Append(local_paths, d.res.val),
                                    [attempts |-> d.attempts, disk |-> d.disk])

\* batch_download(filenames)
BatchDownload(filenames, failAt, io) ==
    BatchDownloadFrom(filenames, 1, failAt, <<>>, io)

\* zip(local_paths, s3_filenames): as many pairs as the shorter list has
Zip(a, b) ==
    [i \in 1..(IF Len(a) <= Len(b) THEN Len(a) ELSE Len(b)) |-> <<a[i], b[i]>>]

RECURSIVE BatchUploadFrom(_, _, _, _, _)
BatchUploadFrom(pairs, i, failAt, s3_paths, io) ==
    IF i > Len(pairs)
    THEN [res |-> Ok(s3_paths), attempts |-> io.attempts, objects |-> io.objects]
    ELSE LET u == UploadToS3(pairs[i][1], pairs[i][2], failAt = i, io)
         IN  IF u.res.exc # "none" THEN u
             ELSE BatchUploadFrom(pairs, i + 1, failAt,
                                  Append(s3_paths, u.res.val),
                                  [attempts |-> u.attempts, objects |-> u.objects])

\* batch_upload(local_paths, s3_filenames):
\* s3_filenames = s3_filenames or [None] * len(local_paths)
BatchUpload(local_paths, s3_filenames, failAt, io) ==
    LET names == IF s3_filenames # <<>> THEN s3_filenames
                 ELSE [i \in 1..Len(local_paths) |-> <<>>]
    IN  BatchUploadFrom(Zip(local_paths, names), 1, failAt, <<>>, io)

\* ------------------------------------------------- the store's behaviour
StoreIdle ==
    /\ s3pc = "idle"
    /\ s3arg = <<>>
    /\ result = Absent
    /\ attempts = <<>>
    /\ disk = {}

\* a module constructed over some bucket content, no method called yet
S3Init ==
    /\ RuntimeInit
    /\ concurrent_per_model = 1
    /\ model_name = <<"L">>
    /\ version = Latest
    /\ s3_base_object_path \in BasePaths
    /\ local_dir = LocalDir
    /\ objects \in Listings
    /\ pageSize \in 1..MaxPageSize
    /\ StoreIdle

GetLatest ==
    /\ s3pc = "idle"
    /\ \E prefix \in Prefixes, listFails \in BOOLEAN :
          /\ s3arg' = <<prefix, listFails>>
          /\ result' = GetLatestVersion(prefix, listFails)
    /\ s3pc' = "get_latest_version"
    /\ UNCHANGED <<rvars, params, bucket, attempts, disk>>

DownloadVersionCall ==
    /\ s3pc = "idle"
    /\ \E tag \in Tags, listFails \in BOOLEAN, transportFails \in BOOLEAN :
          LET d == DownloadVersion(tag, listFails, transportFails,
                                   [attempts |-> attempts, disk |-> disk])
          IN  /\ s3arg' = <<tag, listFails, transportFails>>
              /\ result' = d.res
              /\ attempts' = d.attempts
              /\ disk' = d.disk
    /\ s3pc' = "download_version"
    /\ UNCHANGED <<rvars, params, bucket>>

S3Next ==
    \/ GetLatest
    \/ DownloadVersionCall

S3Spec == S3Init /\ [][S3Next]_vars

\* ---------------------------------------------- listing and single get
\* the keys a listed bucket can hold; the third holds the base path again
KeyPool ==
    << <<"m","/","v","1","/","m","o","d","e","l",".","p","t">>,
       <<"m","/","v","2","/","m","o","d","e","l",".","b","i","n">>,
       <<"m","/","v","1","/","m","/","a",".","p","t">>,
       <<"m","/","v","1","0","/","m","o","d","e","l",".","p","t">>,
       <<"m","/","v","2","/","a",".","p","t">>,
       <<"m","/","v","1","/","a",".","p","t">> >>

StoreKeys ==
    { KeyPool[i] : i \in 1..(IF MaxKeys <= Len(KeyPool) THEN MaxKeys
                             ELSE Len(KeyPool)) }

\* every bucket of at most MaxKeys of these keys, in any provider order
KeyListings ==
    UNION { { s \in [1..n -> [Key : StoreKeys, LastModified : {1}]] :
                \A i, j \in 1..n : i # j => s[i].Key # s[j].Key }
            : n \in 0..MaxKeys }

\* the names download_to_local is called with; the last is in no bucket
DownloadNames ==
    { <<"v","1","/","m","o","d","e","l",".","p","t">>,
      <<"v","1","/","m","/","a",".","p","t">>,
      <<"x",".","p","t">> }

StoreInit ==
    /\ RuntimeInit
    /\ concurrent_per_model = 1
    /\ model_name = <<"L">>
    /\ version = Latest
    /\ s3_base_object_path \in BasePaths
    /\ local_dir = LocalDir
    /\ objects \in KeyListings
    /\ pageSize \in 1..MaxPageSize
    /\ StoreIdle

ListFilesCall ==
    /\ s3pc = "idle"
    /\ \E prefix \in Prefixes, listFails \in BOOLEAN :
          /\ s3arg' = <<prefix, listFails>>
          /\ result' = ListFiles(prefix, listFails)
    /\ s3pc' = "list_files"
    /\ UNCHANGED <<rvars, params, bucket, attempts, disk>>

DownloadToLocalCall ==
    /\ s3pc = "idle"
    /\ \E filename \in DownloadNames, transportFails \in BOOLEAN :
          LET d == DownloadToLocal(filename, transportFails,
                                   [attempts |-> attempts, disk |-> disk])
          IN  /\ s3arg' = <<filename, transportFails>>
              /\ result' = d.res
              /\ attempts' = d.attempts
              /\ disk' = d.disk
    /\ s3pc' = "download_to_local"
    /\ UNCHANGED <<rvars, params, bucket>>

StoreNext ==
    \/ ListFilesCall
    \/ DownloadToLocalCall

StoreSpec == StoreInit /\ [][StoreNext]_vars

\* ------------------------------------------------------ put and batches
\* the local files that exist, and the paths and names upload is called with
LocalFiles == { <<"u","/","a",".","p","t">> }
UploadPaths == { <<"u","/","a",".","p","t">>, <<"u","/","b",".","p","t">> }
UploadNames ==
    { <<>>, <<"x",".","p","t">>, <<"v","1","/","m","o","d","e","l",".","p","t">> }

\* the buckets the batch operations run against
BatchBuckets ==
    { SelectSeq(SubSeq(KeyPool, 1, 3), LAMBDA k : k \in S) :
        S \in SUBSET { KeyPool[i] : i \in 1..3 } }

SeqsUpTo(S, n) == UNION { [1..k -> S] : k \in 0..n }

BatchInit ==
    /\ RuntimeInit
    /\ concurrent_per_model = 1
    /\ model_name = <<"L">>
    /\ version = Latest
    /\ s3_base_object_path \in BasePaths
    /\ local_dir = LocalDir
    /\ \E keys \in BatchBuckets :
          objects = [i \in 1..Len(keys) |-> [Key |-> keys[i], LastModified |-> 1]]
    /\ pageSize = 1
    /\ s3pc = "idle"
    /\ s3arg = <<>>
    /\ result = Absent
    /\ attempts = <<>>
    /\ disk = LocalFiles

UploadCall ==
    /\ s3pc = "idle"
    /\ \E local_path \in UploadPaths, s3_filename \in UploadNames,
          transportFails \in BOOLEAN :
          LET u == UploadToS3(local_path, s3_filename, transportFails,
                              [attempts |-> attempts, objects |-> objects])
          IN  /\ s3arg' = <<local_path, s3_filename, transportFails>>
              /\ result' = u.res
              /\ attempts' = u.attempts
              /\ objects' = u.objects
    /\ s3pc' = "upload_to_s3"
    /\ UNCHANGED <<rvars, params, pageSize, disk>>

BatchDownloadCall ==
    /\ s3pc = "idle"
    /\ \E filenames \in SeqsUpTo(DownloadNames, MaxBatch) :
       \E failAt \in 0..Len(filenames) :
          LET d == BatchDownload(filenames, failAt,
                                 [attempts |-> attempts, disk |-> disk])
          IN  /\ s3arg' = <<filenames, failAt>>
              /\ result' = d.res
              /\ attempts' = d.attempts
              /\ disk' = d.disk
    /\ s3pc' = "batch_download"
    /\ UNCHANGED <<rvars, params, bucket>>

BatchUploadCall ==
    /\ s3pc = "idle"
    /\ \E local_paths \in SeqsUpTo(UploadPaths, MaxBatch),
          s3_filenames \in SeqsUpTo(UploadNames, MaxBatch) :
       \E failAt \in 0..Len(local_paths) :
          LET u == BatchUpload(local_paths, s3_filenames, failAt,
                               [attempts |-> attempts, objects |-> objects])
          IN  /\ s3arg' = <<local_paths, s3_filenames, failAt>>
              /\ result' = u.res
              /\ attempts' = u.attempts
              /\ objects' = u.objects
    /\ s3pc' = "batch_upload"
    /\ UNCHANGED <<rvars, params, pageSize, disk>>

BatchNext ==
    \/ UploadCall
    \/ BatchDownloadCall
    \/ BatchUploadCall

BatchSpec == BatchInit /\ [][BatchNext]_vars

\* ------------------------------------------------ the runtime's behaviour
\* the state after BaseModelModule.__init__, for every limit N >= 1
Init ==
    /\ RuntimeInit
    /\ concurrent_per_model \in 1..MaxLimit
    /\ model_name = <<"L">>
    /\ version = Latest
    /\ s3_base_object_path = <<"m">>
    /\ local_dir = LocalDir
    /\ objects = <<>>
    /\ pageSize = 1
    /\ StoreIdle

Spec == Init /\ [][Next]_vars

\* ---------------------------------------------- the single-load scenario
\* A Runtime that is loaded once and whose callers await their calls: the
\* event loop and the worker pool keep running every step that is enabled,
\* and every computation terminates.
LoadStartOnce == model_info = NoInfo /\ LoadStart

NextOnce ==
    \/ ProvisionDone
    \/ ProvisionFail
    \/ LoadStartOnce
    \/ LoadSucceed
    \/ LoadFalsy
    \/ LoadRaise
    \/ \E c \in Calls : Call(c)
    \/ \E c \in Calls : WaiterResume(c)
    \/ \E c \in Calls : ForwardReturn(c)
    \/ \E c \in Calls : ForwardRaise(c)
    \/ \E c \in Calls : CallResume(c)

FairSpec ==
    /\ Init
    /\ [][NextOnce]_vars
    /\ \A c \in Calls : WF_vars(WaiterResume(c))
    /\ \A c \in Calls : WF_vars(ForwardReturn(c) \/ ForwardRaise(c))
    /\ \A c \in Calls : WF_vars(CallResume(c))

\* ------------------------------------------- the exceptions of __call__
\* forward may raise any exception, RuntimeError among them
ComputationFaults == {"ForwardError", "RuntimeError"}

ForwardRaiseAny(c) == \E f \in ComputationFaults : RunInferenceEnd(c, f)

\* the class of the exception a caller of __call__ gets: the not-loaded
\* error is raise RuntimeError("No model loaded. Call load_model first.")
ErrorType(e) == IF e = "NotLoaded" THEN "RuntimeError" ELSE e

FaultNext ==
    \/ ProvisionDone
    \/ ProvisionFail
    \/ LoadStartOnce
    \/ LoadSucceed
    \/ LoadFalsy
    \/ LoadRaise
    \/ \E c \in Calls : Call(c)
    \/ \E c \in Calls : WaiterResume(c)
    \/ \E c \in Calls : ForwardReturn(c)
    \/ \E c \in Calls : ForwardRaiseAny(c)
    \/ \E c \in Calls : CallResume(c)

FaultSpec == Init /\ [][FaultNext]_vars

\* ------------------------------------------------------- provisioning
\* _init_model_files and download_model: the background task the
\* constructor starts, over the store it builds its S3Module on.

\* str.lower() (of the letters the model names are written with)
Lower(str) == [i \in 1..Len(str) |-> IF str[i] = "L" THEN "l" ELSE str[i]]

\* str.endswith
EndsWith(str, suffix) ==
    Len(suffix) <= Len(str)
    /\ SubSeq(str, Len(str) - Len(suffix) + 1, Len(str)) = suffix

\* model_extensions = ('.pth', '.pt', '.bin', '.safetensors')
model_extensions ==
    { <<".","p","t","h">>, <<".","p","t">>, <<".","b","i","n">>,
      <<".","s","a","f","e","t","e","n","s","o","r","s">> }

\* any(local_path.endswith(ext) for ext in model_extensions)
\* (AnyExtension: the check left out)
AnyExtension(local_path) == TRUE
HasModelExtension(local_path) ==
    \E ext \in model_extensions : EndsWith(local_path, ext)

\* settings.MODELS_S3_OBJECT_BASE_NAME and self.local_model_dir
ObjectBaseName == <<"b">>
local_model_dir == <<"/","a","p","p","/","m","o","d","e","l","s">>

\* _init_model_files: "latest" if self.version == "latest" else f"v{self.version}"
\* (VersionDirShared: one directory name for every version)
VersionDirShared(ver) == Latest
VersionDir(ver) == IF ver = Latest THEN Latest ELSE VersionPrefix(ver)

\* _init_model_files: s3_base_object_path and local_dir of the S3DownloadParams
ArtifactBase(name, ver) ==
    ObjectBaseName \o <<"/">> \o Lower(name) \o <<"/">> \o VersionDir(ver)
LocalModelDir(name, ver) ==
    local_model_dir \o <<"/">> \o Lower(name) \o <<"/">> \o VersionDir(ver)

\* download_latest(prefix)
\* (DownloadLatestEager: the download is tried whatever was found; the
\* name of nothing is formatted as 'None')
DownloadLatestEager(prefix, listFails, transportFails, io) ==
    LET latest_file == GetLatestVersion(prefix, listFails)
    IN  IF latest_file.exc # "none"
        THEN [res |-> latest_file, attempts |-> io.attempts, disk |-> io.disk]
        ELSE DownloadToLocal(IF latest_file.absent THEN <<"N","o","n","e">>
                             ELSE latest_file.val, transportFails, io)
DownloadLatest(prefix, listFails, transportFails, io) ==
    LET latest_file == GetLatestVersion(prefix, listFails)
    IN  IF latest_file.exc # "none"
        THEN [res |-> latest_file, attempts |-> io.attempts, disk |-> io.disk]
        ELSE IF latest_file.absent \/ latest_file.val = <<>>
        THEN [res |-> Absent, attempts |-> io.attempts, disk |-> io.disk]
        ELSE DownloadToLocal(latest_file.val, transportFails, io)

\* download_model(s3_params, version)
DownloadModel(listFails, transportFails, io) ==
    LET d == IF version = Latest
             THEN DownloadLatest(model_name, listFails, transportFails, io)
             ELSE DownloadVersion(version, listFails, transportFails, io)
    IN  IF d.res.exc # "none" THEN d
        ELSE IF d.res.absent \/ d.res.val = <<>>
        THEN [d EXCEPT !.res = Raise("ValueError", <<>>)]
        ELSE IF ~HasModelExtension(d.res.val)
        THEN [d EXCEPT !.res = Raise("ValueError", <<d.res.val>>)]
        ELSE d

\* the descriptors a Runtime is constructed with
DescriptorNames == { <<"L">>, <<"l">> }
Selectors == { Latest, <<"1">> }

\* the keys of the models bucket
ProvKeys ==
    { <<"b","/","l","/","l","a","t","e","s","t","/","L",".","p","t">>,
      <<"b","/","l","/","l","a","t","e","s","t","/","L",".","t","x","t">>,
      <<"b","/","l","/","v","1","/","v","1",".","p","t">>,
      <<"b","/","l","/","v","1","/","v","1",".","t","x","t">> }

ProvListings ==
    UNION { { s \in [1..n -> [Key : ProvKeys, LastModified : 1..MaxTime]] :
                \A i, j \in 1..n : i # j => s[i].Key # s[j].Key }
            : n \in 0..MaxObjs }

\* the state after BaseModelModule.__init__: the task is created and has
\* not run; no S3DownloadParams exist yet
ProvInit ==
    /\ RuntimeInit
    /\ concurrent_per_model = 1
    /\ model_name \in DescriptorNames
    /\ version \in Selectors
    /\ s3_base_object_path = <<>>
    /\ local_dir = <<>>
    /\ objects \in ProvListings
    /\ pageSize = MaxPageSize
    /\ StoreIdle

\* _init_model_files up to the first network call of download_model: the
\* S3DownloadParams are built and the S3Module is constructed on them
InitModelFilesStart ==
    /\ provPc = "pending"
    /\ provPc' = "downloading"
    /\ s3_base_object_path' = ArtifactBase(model_name, version)
    /\ local_dir' = LocalModelDir(model_name, version)
    /\ UNCHANGED <<concurrent_per_model, local_model_checkpoint_path,
                   model_info, sem, concurrent_count, loadPc, lastLoad,
                   pc, semOf, infoOf, thread, fault, err>>
    /\ UNCHANGED <<model_name, version, bucket, s3pc, s3arg, result,
                   attempts, disk>>

\* the rest of _init_model_files: download_model returns the path, which is
\* stored, or raises, which is logged and re-raised into the task
InitModelFilesEnd ==
    /\ provPc = "downloading"
    /\ \E listFails \in BOOLEAN, transportFails \in BOOLEAN :
          LET d == DownloadModel(listFails, transportFails,
                                 [attempts |-> attempts, disk |-> disk])
          IN  /\ s3arg' = <<listFails, transportFails>>
              /\ result' = d.res
              /\ attempts' = d.attempts
              /\ disk' = d.disk
              /\ IF d.res.exc = "none"
                 THEN /\ local_model_checkpoint_path' = d.res.val
                      /\ provPc' = "done"
                 ELSE /\ UNCHANGED local_model_checkpoint_path
                      /\ provPc' = "failed"
    /\ s3pc' = "download_model"
    /\ UNCHANGED <<concurrent_per_model, model_info, sem, concurrent_count,
                   loadPc, lastLoad, pc, semOf, infoOf, thread, fault, err>>
    /\ UNCHANGED <<params, bucket>>

ProvNext ==
    \/ InitModelFilesStart
    \/ InitModelFilesEnd
    \/ LoadStartOnce
    \/ LoadSucceed
    \/ LoadFalsy
    \/ LoadRaise

ProvSpec == ProvInit /\ [][ProvNext]_vars

\* ------------------------------------------- resolving over any listing
\* download_latest(prefix) on a bucket of KeyListings
DownloadLatestCall ==
    /\ s3pc = "idle"
    /\ \E prefix \in Prefixes, listFails \in BOOLEAN, transportFails \in BOOLEAN :
          LET d == DownloadLatest(prefix, listFails, transportFails,
                                  [attempts |-> attempts, disk |-> disk])
          IN  /\ s3arg' = <<prefix, listFails, transportFails>>
              /\ result' = d.res
              /\ attempts' = d.attempts
              /\ disk' = d.disk
    /\ s3pc' = "download_latest"
    /\ UNCHANGED <<rvars, params, bucket>>

ResolveNext ==
    \/ DownloadLatestCall
    \/ DownloadVersionCall

ResolveSpec == StoreInit /\ [][ResolveNext]_vars

\* ------------------------------------------------- the HTTP boundary
\* app.py registers one handler per exception class; an exception that
\* leaves a request is answered by the handler of the first class of its
\* method resolution order that has one.

\* the method resolution order of the exception classes, up to Exception
Mro(t) ==
    CASE t = "NotImplementedError" -> <<t, "RuntimeError", "Exception">>
      [] t = "UnboundLocalError"   -> <<t, "NameError", "Exception">>
      [] t = "FileNotFoundError"   -> <<t, "OSError", "Exception">>
      [] t = "Exception"           -> <<t>>
      [] OTHER                     -> <<t, "Exception">>

\* app.add_exception_handler(...)
Handlers ==
    { "HTTPException", "RequestValidationError", "Exception",
      "S3DownloadError", "UnzipError", "S3ListError", "DataValidationError",
      "RuntimeError", "CudaError" }

HandlerFor(t) ==
    LET mro == Mro(t)
    IN  mro[CHOOSE i \in 1..Len(mro) :
                /\ mro[i] \in Handlers
                /\ \A j \in 1..(i - 1) : mro[j] \notin Handlers]

\* the JSONResponse of the handlers: status code, the fixed part of the
\* message, and the context fields of the exception the body carries
Response(status, message, fields) ==
    [status |-> status, message |-> message, fields |-> fields]

Respond(t, ctx) ==
    LET h == HandlerFor(t)
    IN  CASE h = "HTTPException" -> Response(ctx[1], "HTTP error", <<>>)
          [] h = "RequestValidationError" -> Response(422, "Validation error", <<>>)
          [] h = "RuntimeError" -> Response(500, "Runtime error", <<>>)
          [] h = "S3DownloadError" -> Response(500, "S3 download error", ctx)
          [] h = "UnzipError" -> Response(500, "Unzip error", ctx)
          [] h = "S3ListError" -> Response(500, "S3 list error", ctx)
          [] h = "DataValidationError" ->
                Response(500, "Data class building error", <<>>)
          [] h = "CudaError" -> Response(500, "Cuda initializing error", <<>>)
          [] h = "Exception" ->
                Response(500, "An unexpected error occurred", <<>>)

\* the exceptions that reach the boundary from outside the store: the
\* not-loaded error and the load failure (RuntimeError), the base class's
\* forward (NotImplementedError), a variant's forward, a request that does
\* not validate, and a route that is not found
BoundaryFaults ==
    { <<"RuntimeError", <<>> >>, <<"NotImplementedError", <<>> >>,
      <<"ForwardError", <<>> >>, <<"RequestValidationError", <<>> >>,
      <<"HTTPException", <<404>> >> }

\* a request runs download_model on the module's parameters
ResolveCall ==
    /\ s3pc = "idle"
    /\ \E listFails \in BOOLEAN, transportFails \in BOOLEAN :
          LET d == DownloadModel(listFails, transportFails,
                                 [attempts |-> attempts, disk |-> disk])
          IN  /\ s3arg' = <<listFails, transportFails>>
              /\ result' = d.res
              /\ attempts' = d.attempts
              /\ disk' = d.disk
    /\ s3pc' = "download_model"
    /\ UNCHANGED <<rvars, params, bucket>>

\* the exception a store operation raised leaves the request
RespondToStoreFault ==
    /\ s3pc \notin {"idle", "responded"}
    /\ result.exc # "none"
    /\ s3pc' = "responded"
    /\ s3arg' = <<result.exc, result.ctx>>
    /\ result' = Ok(Respond(result.exc, result.ctx))
    /\ UNCHANGED <<rvars, params, bucket, attempts, disk>>

\* another exception leaves the request
RespondToFault ==
    /\ s3pc = "idle"
    /\ \E e \in BoundaryFaults :
          /\ s3arg' = e
          /\ result' = Ok(Respond(e[1], e[2]))
    /\ s3pc' = "responded"
    /\ UNCHANGED <<rvars, params, bucket, attempts, disk>>

HttpNext ==
    \/ RespondToFault
    \/ RespondToStoreFault
    \/ ResolveCall
    \/ ListFilesCall
    \/ DownloadToLocalCall
    \/ UploadCall

HttpSpec == BatchInit /\ [][HttpNext]_vars

\* ------------------------------------------------------------ vocabulary
InFlight(c) == pc[c] \in {"waiting", "granted", "awaiting"}
HoldsPermit(c) == pc[c] \in {"granted", "awaiting"}
Completed(c) == pc[c] = "returned" \/ (pc[c] = "raised" /\ err[c] \in ForwardFaults)
\* calls admitted through gate g whose computation is running on a worker
Executing(g) ==
    {c \in Calls : semOf[c] = g /\ pc[c] = "awaiting" /\ thread[c] = "forward"}
Admitted(g) == {c \in Calls : semOf[c] = g /\ HoldsPermit(c)}
Loaded == 1..model_info
LoadFailures == {"ValueError", "RuntimeError", "DeviceError"}

\* ---------------------------------------------------------------- claims

\* C1: for every limit N >= 1 and every number of concurrent infer calls,
\* the calls admitted through the gate of a loaded state whose forward is
\* running on a worker thread are never more than N.
ConcurrencyBound ==
    \A g \in Gates : Cardinality(Executing(g)) <= concurrent_per_model

\* C1 witness: N computations are running and a further caller is queued.
ConcurrencyBoundWitness ==
    \E g \in Gates :
        /\ Cardinality(Executing(g)) = concurrent_per_model
        /\ \E c \in Calls : semOf[c] = g /\ pc[c] = "waiting"

\* C2: the counter of every state dict stays within 0..limit, under any
\* interleaving of succeeding and failing calls; it is never negative.
CounterInRange ==
    \A g \in Gates :
        concurrent_count[g] >= 0 /\ concurrent_count[g] <= concurrent_per_model

\* C2 witness: a failing and a succeeding computation have both run their
\* finally block.
CounterInRangeWitness ==
    \E c, d \in Calls :
        /\ thread[c] = "done" /\ fault[c] \in ForwardFaults
        /\ thread[d] = "done" /\ fault[d] = "none"
        /\ concurrent_count[model_info] = 0

\* C3: an infer call on a Runtime that holds no state dict ends in the same
\* step with the not-loaded error; it takes no permit, dispatches nothing
\* and is not queued.
NotLoadedRejected ==
    [][\A c \in Calls :
          (pc[c] = "idle" /\ pc'[c] # "idle" /\ model_info = NoInfo)
          => /\ pc'[c] = "raised"
             /\ err'[c] = "NotLoaded"
             /\ sem' = sem
             /\ thread' = thread
              /\ semOf' = semOf
      ]_vars

\* C3 witness: a call was rejected after a load had failed and while no
\* state dict exists.
NotLoadedRejectedWitness ==
    /\ model_info = NoInfo
    /\ lastLoad \in LoadFailures
    /\ \E c \in Calls : pc[c] = "raised" /\ err[c] = "NotLoaded"

\* C4: a fault of the computation reaches the caller; when the caller has
\* it the finally block has run and the permit is back; permits are
\* conserved, so with no call in flight every gate has all N permits.
FaultPropagatesGateIntact ==
    /\ \A c \in Calls :
          (thread[c] = "done" /\ fault[c] # "none"
             /\ pc[c] \notin {"awaiting", "cancelled"})
          => (pc[c] = "raised" /\ err[c] = fault[c])
    /\ \A c \in Calls :
          (pc[c] = "raised" /\ err[c] \in ForwardFaults)
          => (thread[c] = "done" /\ semOf[c] = NoInfo)
    /\ \A g \in Loaded :
          sem[g].value + Cardinality(Admitted(g)) = concurrent_per_model
    /\ (\A c \in Calls : ~InFlight(c))
          => \A g \in Loaded : sem[g] = NewSem(concurrent_per_model)

\* C4 witness: a call has failed, another has succeeded, nothing is in
\* flight and the gate is whole.
FaultPropagatesWitness ==
    /\ \E c \in Calls : pc[c] = "raised" /\ err[c] \in ForwardFaults
    /\ \E c \in Calls : pc[c] = "returned"
    /\ \A c \in Calls : ~InFlight(c)
    /\ model_info # NoInfo
    /\ sem[model_info].value = concurrent_per_model

\* C5: on a Runtime loaded once with limit N < M, every submitted call
\* completes (none is rejected, none starves); when all M are in flight at
\* once exactly N of them are admitted with their computation dispatched;
\* and when all have completed the counter is 0.
AllCallsComplete ==
    /\ \A c \in Calls : InFlight(c) ~> Completed(c)
    /\ [][\A c \in Calls :
            (pc[c] = "idle" /\ pc'[c] # "idle" /\ model_info # NoInfo)
            => pc'[c] \in {"waiting", "awaiting"}]_vars
    /\ []((NumCalls > concurrent_per_model /\ \A c \in Calls : InFlight(c))
            => Cardinality(Admitted(model_info)) = concurrent_per_model)
    /\ []((\A c \in Calls : Completed(c)) => concurrent_count[model_info] = 0)

\* C5 witness: all M > N calls are in flight, N admitted and M - N queued.
AllCallsCompleteWitness ==
    /\ NumCalls > concurrent_per_model
    /\ Cardinality({c \in Calls : pc[c] = "awaiting"}) = concurrent_per_model
    /\ Cardinality({c \in Calls : pc[c] = "waiting"})
          = NumCalls - concurrent_per_model

\* C6: the Runtime holds a state dict only if provisioning has stored a
\* checkpoint path; a load started without one fails before the device load
\* and leaves the Runtime not Ready.
ReadyOnlyIfProvisioned ==
    /\ model_info # NoInfo
          => (provPc = "done" /\ local_model_checkpoint_path # NoPath)
    /\ loadPc = "loading" => local_model_checkpoint_path # NoPath
    /\ lastLoad = "ValueError" /\ local_model_checkpoint_path = NoPath
          => model_info = NoInfo

\* C6 witness: load was called while provisioning had not completed (or had
\* failed); it raised and the Runtime is not Ready.
ReadyOnlyIfProvisionedWitness ==
    /\ lastLoad = "ValueError"
    /\ provPc \in {"pending", "failed"}
    /\ model_info = NoInfo
    /\ loadPc = "idle"

\* C7 as claimed: once a load has failed, no later step makes the instance
\* Ready or dispatches a computation.
FailedIsTerminal ==
    [][(lastLoad \in LoadFailures)
         => (/\ model_info' = model_info
             /\ \A c \in Calls : thread'[c] = "forward" => thread[c] = "forward")
      ]_vars

\* C7 as amended: a failing load changes nothing but its own outcome: the
\* state dict, the gates, the counters and every call stay as they were.
LoadFailureChangesNothing ==
    [][(lastLoad' \in LoadFailures /\ loadPc' = "idle"
          /\ (loadPc = "loading" \/ lastLoad' # lastLoad))
         => UNCHANGED <<model_info, sem, concurrent_count, pc, semOf, infoOf,
                        thread, local_model_checkpoint_path>>]_vars

\* C7 witness: the last load failed and the instance is Ready, running a
\* computation.
LoadFailureChangesNothingWitness ==
    /\ lastLoad \in LoadFailures
    /\ model_info # NoInfo
    /\ \E c \in Calls : pc[c] = "awaiting" /\ thread[c] = "forward"

\* C8: the step in which a load succeeds leaves the Runtime with a state
\* dict whose gate has exactly N free permits, no waiter, and counter 0.
LoadInstallsFreshGate ==
    [][model_info' # model_info
         => /\ model_info' # NoInfo
            /\ lastLoad' = "ok"
            /\ sem'[model_info'] = [value |-> concurrent_per_model, waiters |-> <<>>]
            /\ concurrent_count'[model_info'] = 0
      ]_vars

\* C8 witness: a second load has just succeeded while a call admitted under
\* the first state dict still holds its permit.
LoadInstallsFreshGateWitness ==
    /\ model_info > 1
    /\ lastLoad = "ok"
    /\ sem[model_info].value = concurrent_per_model
    /\ \E c \in Calls : HoldsPermit(c) /\ semOf[c] < model_info

\* C9: get_latest_version returns, over all pages of the listing taken in
\* provider order, the key (relative to the base path) of the first object
\* that carries the greatest LastModified; None when nothing is listed.
LatestIsFirstMaximum ==
    (s3pc = "get_latest_version" /\ ~s3arg[2])
    => LET L == Under(<<"m", "/">> \o s3arg[1])
       IN  IF L = <<>> THEN result = Absent
           ELSE \E i \in 1..Len(L) :
                   /\ \A j \in 1..Len(L) : L[j].LastModified <= L[i].LastModified
                   /\ \A j \in 1..(i - 1) : L[j].LastModified < L[i].LastModified
                   /\ result = Ok(StripBase(L[i].Key))

\* C9 witness: two objects on different pages share the greatest timestamp
\* and the earlier one is returned.
LatestIsFirstMaximumWitness ==
    /\ s3pc = "get_latest_version" /\ ~s3arg[2] /\ pageSize = 1
    /\ LET L == Under(<<"m", "/">> \o s3arg[1])
       IN  \E i, j \in 1..Len(L) :
              /\ i < j
              /\ L[i].LastModified = L[j].LastModified
              /\ \A k \in 1..Len(L) : L[k].LastModified <= L[i].LastModified
              /\ \A k \in 1..(i - 1) : L[k].LastModified < L[i].LastModified
              /\ result = Ok(StripBase(L[i].Key))

\* the keys of the claim's example, in its order
ExampleKeys ==
    << <<"m","/","v","1","/","m","o","d","e","l",".","p","t">>,
       <<"m","/","v","2","/","m","o","d","e","l",".","b","i","n">>,
       <<"m","/","v","1","0","/","m","o","d","e","l",".","p","t">> >>

\* C10: download_version with tag T downloads, among the listed names that
\* start with v<T>, the greatest one in plain string order (and nothing
\* when none matches); tag "2" over v1/model.pt, v2/model.bin, v10/model.pt
\* downloads v2/model.bin.
VersionPicksGreatest ==
    (s3pc = "download_version" /\ ~s3arg[2])
    => LET listed == {StripBase(objects[i].Key) : i \in 1..Len(objects)}
           matches == {f \in listed : StartsWith(f, <<"v">> \o s3arg[1])}
       IN  /\ IF matches = {} THEN result = Absent /\ attempts = <<>>
              ELSE \E sel \in matches :
                      /\ \A f \in matches : ~StrLess(sel, f)
                      /\ attempts = << <<"m", "/">> \o sel >>
                      /\ ~s3arg[3] => result = Ok(<<"d", "/">> \o sel)
           /\ ([i \in 1..Len(objects) |-> objects[i].Key] = ExampleKeys
                 /\ s3arg[1] = <<"2">>)
              => attempts = << ExampleKeys[2] >>

\* C10 witness: the claim's example, and v2/model.bin has been downloaded.
VersionPicksGreatestWitness ==
    /\ s3pc = "download_version" /\ ~s3arg[2] /\ ~s3arg[3]
    /\ [i \in 1..Len(objects) |-> objects[i].Key] = ExampleKeys
    /\ s3arg[1] = <<"2">>
    /\ attempts = << ExampleKeys[2] >>
    /\ result = Ok(<<"d","/","v","2","/","m","o","d","e","l",".","b","i","n">>)

\* ------------------------------------------------- claims about the store
\* what the claims call the key with its leading base path removed, and
\* the keys a listing under a prefix covers
Lead == RStripSlash(s3_base_object_path) \o <<"/">>
WithoutLead(key) == SubSeq(key, Len(Lead) + 1, Len(key))
KeysUnder(prefix) ==
    SelectSeq([i \in 1..Len(objects) |-> objects[i].Key],
              LAMBDA k : StartsWith(k, Lead \o prefix))
InBucket(key) == \E i \in 1..Len(objects) : objects[i].Key = key

\* C11: list_files returns the keys of all pages in provider order, none
\* dropped, duplicated or re-sorted, each with exactly its leading base
\* path removed and the rest of the key unchanged.
ListIsStrippedConcat ==
    (s3pc = "list_files" /\ ~s3arg[2])
    => LET L == KeysUnder(s3arg[1])
       IN  result = Ok([i \in 1..Len(L) |-> WithoutLead(L[i])])

PutChecksLocalFirst ==
    [][(s3pc = "idle" /\ s3pc' = "upload_to_s3")
         => LET lp == s3arg'[1]
                nm == IF s3arg'[2] # <<>> THEN s3arg'[2] ELSE BaseName(lp)
                key == Lead \o nm
            IN  IF lp \notin disk
                THEN /\ result' = Raise("FileNotFoundError", <<lp>>)
                     /\ attempts' = attempts
                     /\ objects' = objects
                ELSE IF s3arg'[3]
                THEN /\ result' = Raise("S3DownloadError", <<key>>)
                     /\ objects' = objects
                ELSE /\ result' = Ok(key)
                     /\ attempts' = Append(attempts, key)
                     /\ \E i \in 1..Len(objects') : objects'[i].Key = key
      ]_vars

\* C15 witness: the local file is absent and the transport is down as
\* well: the call failed with FileNotFoundError and tried no transfer.
PutChecksLocalFirstWitness ==
    /\ s3pc = "upload_to_s3"
    /\ s3arg[1] \notin disk
    /\ s3arg[3]
    /\ result.exc = "FileNotFoundError"
    /\ attempts = <<>>

\* C16: batch_download downloads in input order; when filenames[f] is the
\* first to fail the call raises that error, the files before it are on
\* disk and nothing after it was tried; when none fails it returns one
\* local path per name in input order.
BatchDownloadStopsAtFirstFailure ==
    s3pc = "batch_download"
    => LET fs == s3arg[1]
           key(i) == Lead \o fs[i]
           path(i) == local_dir \o <<"/">> \o fs[i]
           bad == {i \in 1..Len(fs) : s3arg[2] = i \/ ~InBucket(key(i))}
       IN  IF bad = {}
           THEN /\ result = Ok([i \in 1..Len(fs) |-> path(i)])
                /\ attempts = [i \in 1..Len(fs) |-> key(i)]
                /\ disk = LocalFiles \cup {path(i) : i \in 1..Len(fs)}
           ELSE LET f == CHOOSE i \in bad : \A j \in bad : i <= j
                IN  /\ result = Raise("S3DownloadError", <<key(f)>>)
                    /\ attempts = [i \in 1..f |-> key(i)]
                    /\ disk = LocalFiles \cup {path(i) : i \in 1..(f - 1)}

\* C16 witness: the second download of a batch failed; the first file is
\* on disk and the error carries the second key.
BatchDownloadStopsWitness ==
    /\ s3pc = "batch_download"
    /\ Len(s3arg[1]) >= 2
    /\ result.exc = "S3DownloadError"
    /\ result.ctx = << Lead \o s3arg[1][2] >>
    /\ (local_dir \o <<"/">> \o s3arg[1][1]) \in disk
    /\ Len(attempts) = 2

\* C17: batch_upload, for every pair of input lists, either raises at the
\* first failing upload with no later upload tried, or has uploaded every
\* local path and returns one remote key per local path in input order.
BatchUploadAllOrFirstFailure ==
    s3pc = "batch_upload"
    => LET lps == s3arg[1]
       IN  \/ /\ result.exc # "none"
              /\ Len(attempts) <= Len(lps)
           \/ /\ result.exc = "none"
              /\ Len(result.val) = Len(lps)
              /\ attempts = result.val
              /\ \A i \in 1..Len(lps) : InBucket(result.val[i])

\* ------------------------------------------- claims about provisioning
ValidArtifact(path) == \E ext \in model_extensions : EndsWith(path, ext)

\* C12: the checkpoint path the Runtime holds is absent or ends in .pth,
\* .pt, .bin or .safetensors, and so does any path handed to the device
\* load; a download that produced a file with another extension ended in
\* ValueError and stored nothing.
ArtifactPathValidated ==
    /\ local_model_checkpoint_path # NoPath
          => ValidArtifact(local_model_checkpoint_path)
    /\ (loadPc = "loading" \/ model_info # NoInfo)
          => ValidArtifact(local_model_checkpoint_path)
    /\ (s3pc = "download_model" /\ \E f \in disk : ~ValidArtifact(f))
          => /\ result.exc = "ValueError"
             /\ local_model_checkpoint_path = NoPath
             /\ provPc = "failed"

\* C12 witness: a .txt file was downloaded, provisioning failed, and the
\* load tried afterwards stopped before the device load.
ArtifactPathValidatedWitness ==
    /\ s3pc = "download_model"
    /\ \E f \in disk : ~ValidArtifact(f)
    /\ result.exc = "ValueError"
    /\ lastLoad = "ValueError"
    /\ model_info = NoInfo

\* nothing matches the descriptor: for 'latest' no key lies under the
\* model's prefix, for a tag T no listed name starts with v<T>
NoArtifactMatches ==
    IF version = Latest THEN KeysUnder(model_name) = <<>>
    ELSE LET listed == ListFiles(<<>>, FALSE).val
         IN  \A i \in 1..Len(listed) :
                ~StartsWith(listed[i], <<"v">> \o version)

\* C13: when the listing works and nothing matches the descriptor,
\* download_model raises ValueError and no download was attempted.
ResolveFailsWithoutMatch ==
    (s3pc = "download_model" /\ ~s3arg[1] /\ NoArtifactMatches)
    => /\ result.exc = "ValueError"
       /\ attempts = <<>>
       /\ disk = {}
       /\ local_model_checkpoint_path = NoPath
       /\ provPc = "failed"

\* C13 witness: the bucket holds objects, none of them for this
\* descriptor, and provisioning failed with ValueError.
ResolveFailsWithoutMatchWitness ==
    /\ s3pc = "download_model" /\ ~s3arg[1]
    /\ NoArtifactMatches
    /\ objects # <<>>
    /\ result.exc = "ValueError"
    /\ attempts = <<>>

\* C18: whenever the listing fails the caller gets S3ListError with the
\* bucket and the base path: from list_files, from get_latest_version and
\* from download_model with either selector.
ListFaultIsListError ==
    LET listFailed == \/ s3pc \in {"list_files", "get_latest_version"} /\ s3arg[2]
                      \/ s3pc = "download_model" /\ s3arg[1]
    IN  listFailed
        => result = Raise("S3ListError",
                          <<Bucket, RStripSlash(s3_base_object_path)>>)

InferenceFaultIsDistinct ==
    \A c \in Calls :
        (pc[c] = "raised" /\ fault[c] # "none")
        => /\ ErrorType(err[c]) = "InferenceFault"
           /\ ErrorType(err[c]) # ErrorType("NotLoaded")

\* C20 as amended: the caller gets the very exception the computation
\* raised, unchanged; a call whose computation returned gets none.
FaultReraisedUnchanged ==
    [][\A c \in Calls :
          (pc[c] = "awaiting" /\ pc'[c] \in {"returned", "raised"})
          => /\ err'[c] = fault[c]
             /\ (pc'[c] = "raised") <=> (fault[c] # "none")
      ]_vars

\* C20 witness: one call was rejected before the load and another failed
\* in its computation, and both callers hold a RuntimeError.
FaultReraisedUnchangedWitness ==
    \E c, d \in Calls :
        /\ pc[c] = "raised" /\ err[c] = "NotLoaded"
        /\ pc[d] = "raised" /\ fault[d] = "RuntimeError"
        /\ ErrorType(err[d]) = ErrorType(err[c])

\* ------------------------------------------ claims about the boundary
\* the fault kinds of the claim: what each exception class stands for
FaultKind(t) ==
    CASE t = "S3DownloadError" -> "download"
      [] t = "S3ListError" -> "list"
      [] t = "ValueError" -> "validation"
      [] t = "RuntimeError" -> "runtime"
      [] t \in {"ForwardError", "NotImplementedError"} -> "inference"
      [] t = "RequestValidationError" -> "request"
      [] OTHER -> "uncategorized"

DomainKinds == {"download", "list", "validation", "runtime", "inference"}

\* C21: every domain fault is answered with status 500 and a body of its
\* own kind that carries its context (the key for download, bucket and
\* prefix for list); a request-shape fault with 422; only uncategorized
\* faults get the generic body.
DomainFaultsHaveOwnBody ==
    s3pc = "responded"
    => LET kind == FaultKind(s3arg[1])
           r == result.val
       IN  /\ kind \in DomainKinds
                => /\ r.status = 500
                   /\ r.message # "An unexpected error occurred"
           /\ kind \in {"download", "list"} => r.fields = s3arg[2]
           /\ kind = "request" => r.status = 422
           /\ r.message = "An unexpected error occurred"
                => kind = "uncategorized"

\* -------------------------------------------- claims about the runtime
\* C22: a load whose device load returns a falsy model fails with
\* RuntimeError and changes nothing: the state dict stays as it was and no
\* semaphore is created or touched; on an instance that is still not
\* loaded after it, a call is rejected with the not-loaded error.
AbsentHandleChangesNothing ==
    [][/\ (loadPc = "loading" /\ loadPc' = "idle" /\ lastLoad' = "RuntimeError")
             => /\ model_info' = model_info
                /\ sem' = sem
                /\ concurrent_count' = concurrent_count
       /\ \A c \in Calls :
             (/\ lastLoad = "RuntimeError"
              /\ model_info = NoInfo
              /\ pc[c] = "idle"
              /\ pc'[c] # "idle")
             => /\ pc'[c] = "raised"
                /\ err'[c] = "NotLoaded"
                /\ thread'[c] = "none"
      ]_vars

\* C22 witness: the only load so far returned a falsy model, the instance
\* has no state dict and no semaphore, and a call made on it was rejected.
AbsentHandleChangesNothingWitness ==
    /\ lastLoad = "RuntimeError"
    /\ loadPc = "idle"
    /\ model_info = NoInfo
    /\ \A g \in Gates : sem[g] = NewSem(0)
    /\ \E c \in Calls : pc[c] = "raised" /\ err[c] = "NotLoaded"

\* C23: in every state the counter of a loaded state dict equals the number
\* of calls that hold a permit of its semaphore.
CounterCountsPermitHolders ==
    \A g \in Loaded : concurrent_count[g] = Cardinality(Admitted(g))

\* C24: a call's computation runs only while the call holds its permit,
\* also after the task awaiting it was cancelled; hence the computations
\* running are never more than the permits held.
PermitHeldWhileExecuting ==
    /\ \A c \in Calls : thread[c] = "forward" => HoldsPermit(c)
    /\ Cardinality({c \in Calls : thread[c] = "forward"})
          <= Cardinality({c \in Calls : HoldsPermit(c)})

\* C25: across a reload the computations of calls that hold a permit, of
\* the old semaphore and the new one together, are never more than N, and
\* no semaphore ever has more than N free permits.
BoundSurvivesReload ==
    /\ Cardinality({c \in Calls : pc[c] = "awaiting" /\ thread[c] = "forward"})
          <= concurrent_per_model
    /\ \A g \in Loaded : sem[g].value <= concurrent_per_model

RoundTripKeepsKey ==
    (s3pc \in {"download_latest", "download_version"} /\ attempts # <<>>)
    => LET got == attempts[Len(attempts)]
       IN  /\ InBucket(got)
           /\ StripBase(got) = WithoutLead(got)
           /\ s3pc = "download_latest" => got = KeysUnder(s3arg[1])[1]

\* C28: the file download_version(tag) asks for belongs to version tag
\* itself: the first segment of its name is 'v' + tag, so that tag 1 over
\* v1/ and v10/ selects a file of v1/.
TagSelectsOwnVersion ==
    (s3pc = "download_version" /\ attempts # <<>>)
    => StartsWith(WithoutLead(attempts[Len(attempts)]),
                  VersionPrefix(s3arg[1]) \o <<"/">>)
====
